---- MODULE Spec2Model ----
(***************************************************************************)
(* Model of app/main.py: one request served by one of the three FastAPI   *)
(* handlers translate_document, translate_json and get_deepl_usage, from   *)
(* its arrival to its response, with the recursive coroutine               *)
(* translate_json_values run as an explicit call stack. Requests share no  *)
(* state but the read-only DEEPL_API_KEY.                                  *)
(*                                                                         *)
(* A JSON value is a record [kind, str, num, keys, items]:                 *)
(*   kind  "obj" | "arr" | "str" | "num" | "bool" | "null"                 *)
(*   str   the characters of a string leaf (a tuple of 1-char strings)     *)
(*   num   the value of a number leaf, 1/0 for the booleans                *)
(*   keys  the keys of an object in insertion order                        *)
(*   items the values of an object (aligned with keys) or of an array      *)
(***************************************************************************)
EXTENDS Integers, Sequences, FiniteSets, TLC

VARIABLES
    api_key,        \* os.getenv("DEEPL_API_KEY") is set (process-wide, read-only)
    endpoint,       \* the handler that is running, or "idle"
    pc,             \* the position inside the running handler
    request,        \* the inputs of the running request
    stack,          \* the frames of translate_json_values, innermost last
    result,         \* translated_data, the value translate_json_values returned
    text_calls,     \* translator.translate_text calls of this request, in order
    provider_error, \* the message of the DeepLException raised in this request
    download,       \* the outcome of client.get in this request, "none" before it
    doc_calls,      \* translate_document_from_filepath calls of this request
    usage_calls,    \* get_usage calls of this request
    input_path,     \* the temporary input file of this request, NoPath when none
    output_path,    \* the temporary output file of this request, NoPath when none
    tempfiles,      \* the temporary files that exist on disk
    response        \* the HTTP response of the running request

vars == <<api_key, endpoint, pc, request, stack, result, text_calls,
          provider_error, download, doc_calls, usage_calls, input_path,
          output_path, tempfiles, response>>

---------------------------------------------------------------------------
(* Bounds of the model *)

\* the largest number of nodes (containers and leaves) of a request body
MaxNodes == 4

\* the activations of translate_json_values the interpreter allows before it
\* raises RecursionError (sys.getrecursionlimit() less the frames of the
\* framework), scaled down to the size of the bodies
RecursionLimit == 3

---------------------------------------------------------------------------
(* JSON values *)

Node(kind, str, num, keys, items) ==
    [kind |-> kind, str |-> str, num |-> num, keys |-> keys, items |-> items]

NullValue == Node("null", <<>>, 0, <<>>, <<>>)
StrValue(s) == Node("str", s, 0, <<>>, <<>>)
NumValue(n) == Node("num", <<>>, n, <<>>, <<>>)
BoolValue(b) == Node("bool", <<>>, b, <<>>, <<>>)
ArrValue(items) == Node("arr", <<>>, 0, <<>>, items)
ObjValue(keys, items) == Node("obj", <<>>, 0, keys, items)

Whitespace == {" ", "\t", "\n"}

Texts == { <<>>, <<" ">>, <<"H", "i">>, <<" ", "Y", "o">> }

Leaves ==
    {StrValue(s) : s \in Texts} \cup {NumValue(7), BoolValue(1), NullValue}

Keys == {"a", "b"}

KeySeqs(k) ==
    {ks \in [1..k -> Keys] : \A i, j \in 1..k : i # j => ks[i] # ks[j]}

\* the sequences of k values with n nodes in all, drawn from the table T of the
\* values of each size
RECURSIVE Forests(_, _, _)
Forests(T, k, n) ==
    IF k = 0
    THEN IF n = 0 THEN {<<>>} ELSE {}
    ELSE UNION { {<<t>> \o f : t \in T[m], f \in Forests(T, k - 1, n - m)}
                 : m \in 1..(n - (k - 1)) }

\* TreeTable(n)[m], for m in 1..n: the JSON values of exactly m nodes
RECURSIVE TreeTable(_)
TreeTable(n) ==
    IF n = 0 THEN <<>>
    ELSE LET T == TreeTable(n - 1)
         IN  Append(T,
               IF n = 1
               THEN Leaves \cup {ArrValue(<<>>), ObjValue(<<>>, <<>>)}
               ELSE UNION { {ArrValue(f) : f \in Forests(T, k, n - 1)}
                              \cup {ObjValue(ks, f) :
                                      ks \in KeySeqs(k), f \in Forests(T, k, n - 1)}
                            : k \in 1..(n - 1) })

\* data: dict = Body(...): the body of /translate-json is a JSON object, here
\* one of at most MaxNodes nodes
JsonBodies ==
    LET T == TreeTable(MaxNodes - 1)
    IN  UNION { {ObjValue(ks, f) : ks \in KeySeqs(k), f \in Forests(T, k, n - 1)}
                : k \in 0..Cardinality(Keys), n \in 1..MaxNodes }

TargetLangs == {"DE"}
SourceLangs == {"None", "EN"}
FileUrls == {"", "http://repo/doc.pdf"}

\* str(translation) for a call that succeeds: the provider is a stub that tags
\* the text with the target language
ProviderText(call) == <<call.target_lang>> \o call.text
ProviderErrors == {"Quota exceeded", "Too many requests"}

---------------------------------------------------------------------------
(* Exceptions and responses *)

Exc(type, status, msg) == [type |-> type, status |-> status, msg |-> msg]

\* fastapi.HTTPException derives from Exception
HTTPException(status, detail) == Exc("HTTPException", status, detail)
DeepLException(msg) == Exc("DeepLException", 0, msg)
RecursionError == Exc("RecursionError", 0, "maximum recursion depth exceeded")
ConnectError == Exc("ConnectError", 0, "All connection attempts failed")
OSError == Exc("OSError", 0, "No such file or directory")

NoResponse ==
    [status |-> 0, prefix |-> "", cause |-> "", cause_status |-> 0, body |-> NullValue]

\* HTTPException(status_code=status, detail=prefix + ": " + str(exc)); str() of an
\* HTTPException carries its own status code (cause_status) before its detail
ErrorResponse(status, prefix, exc) ==
    [status |-> status, prefix |-> prefix, cause |-> exc.msg,
     cause_status |-> exc.status, body |-> NullValue]

OkResponse(body) ==
    [status |-> 200, prefix |-> "", cause |-> "", cause_status |-> 0, body |-> body]

\* the except clauses of translate_document
DocumentExcept(exc) ==
    IF exc.type = "DeepLException"
    THEN ErrorResponse(500, "DeepL API error", exc)
    ELSE ErrorResponse(500, "Error translating document", exc)

JsonExceptSwallow(exc) == OkResponse(NullValue)

\* the except clauses of translate_json
JsonExcept(exc) ==
    IF exc.type = "DeepLException"
    THEN ErrorResponse(500, "DeepL API error", exc)
    ELSE ErrorResponse(500, "Error translating JSON", exc)

\* the except clauses of get_deepl_usage
UsageExcept(exc) ==
    IF exc.type = "DeepLException"
    THEN ErrorResponse(500, "DeepL API error", exc)
    ELSE ErrorResponse(500, "Error checking DeepL usage", exc)

KeyAlwaysPresent(key) == FALSE

\* if not api_key
KeyMissing(key) == ~key

StatusIgnored(status) == FALSE

\* if response.status_code != 200
DownloadFailed(status) == status # "200"

---------------------------------------------------------------------------
(* translate_json_values *)

RECURSIVE LStrip(_)
LStrip(s) ==
    IF s # <<>> /\ Head(s) \in Whitespace THEN LStrip(Tail(s)) ELSE s

RECURSIVE RStrip(_)
RStrip(s) ==
    IF s # <<>> /\ s[Len(s)] \in Whitespace
    THEN RStrip(SubSeq(s, 1, Len(s) - 1))
    ELSE s

\* str.strip()
Strip(s) == RStrip(LStrip(s))

IsContainer(data) == data.kind \in {"obj", "arr"}

AnyStringTranslatable(data) == data.kind = "str"

\* isinstance(data, str) and data.strip()
IsTranslatable(data) == data.kind = "str" /\ Strip(data.str) # <<>>

CallArgsStripped(data, target_lang, source_lang) ==
    [text |-> Strip(data.str), target_lang |-> target_lang, source_lang |-> source_lang]

\* translator.translate_text(data, target_lang=target_lang, source_lang=source_lang)
CallArgs(data, target_lang, source_lang) ==
    [text |-> data.str, target_lang |-> target_lang, source_lang |-> source_lang]

\* result = {} for a dict, the list under construction for a list
EmptyResult(data) ==
    IF data.kind = "obj" THEN ObjValue(<<>>, <<>>)
    ELSE IF data.kind = "arr" THEN ArrValue(<<>>)
    ELSE NullValue

\* a fresh activation of translate_json_values(data, ...)
Frame(data) == [data |-> data, idx |-> 0, result |-> EmptyResult(data)]

ItemIndexReversed(frame) == Len(frame.data.items) - frame.idx

\* the position the iteration over data.items() / data is at
ItemIndex(frame) == frame.idx + 1

SetItemFront(res, key, value) ==
    [res EXCEPT !.keys = <<key>> \o @, !.items = <<value>> \o @]

\* result[key] = value
SetItem(res, key, value) ==
    IF \E i \in 1..Len(res.keys) : res.keys[i] = key
    THEN [res EXCEPT !.items =
            [i \in 1..Len(@) |-> IF res.keys[i] = key THEN value ELSE @[i]]]
    ELSE [res EXCEPT !.keys = Append(@, key), !.items = Append(@, value)]

\* the caller's frame once the recursive call at its current item returned value
Store(frame, value) ==
    IF frame.data.kind = "obj"
    THEN [frame EXCEPT !.idx = @ + 1,
                       !.result = SetItem(@, frame.data.keys[ItemIndex(frame)], value)]
    ELSE [frame EXCEPT !.idx = @ + 1, !.result.items = Append(@, value)]

Top == stack[Len(stack)]

\* return value: to the calling frame, or to translate_json when the stack empties
Return(value) ==
    IF Len(stack) = 1
    THEN /\ stack' = <<>>
         /\ result' = value
         /\ pc' = "return"
    ELSE /\ stack' = [i \in 1..(Len(stack) - 1) |->
                        IF i = Len(stack) - 1 THEN Store(stack[i], value) ELSE stack[i]]
         /\ UNCHANGED <<result, pc>>

Translating == endpoint = "translate_json" /\ pc = "translating" /\ stack # <<>>

\* await translate_json_values(value / item, ...) from a dict or a list
ValuesDescend ==
    /\ Translating
    /\ IsContainer(Top.data)
    /\ Top.idx < Len(Top.data.items)
    /\ Len(stack) < RecursionLimit
    /\ stack' = Append(stack, Frame(Top.data.items[ItemIndex(Top)]))
    /\ UNCHANGED <<api_key, endpoint, pc, request, result, text_calls,
                   provider_error, download, doc_calls, usage_calls, input_path,
                   output_path, tempfiles, response>>

\* the same call with the interpreter's frame limit reached: RecursionError
\* propagates through every frame to the except clauses of translate_json
ValuesRecursionError ==
    /\ Translating
    /\ IsContainer(Top.data)
    /\ Top.idx < Len(Top.data.items)
    /\ Len(stack) >= RecursionLimit
    /\ stack' = <<>>
    /\ response' = JsonExcept(RecursionError)
    /\ pc' = "done"
    /\ UNCHANGED <<api_key, endpoint, request, result, text_calls,
                   provider_error, download, doc_calls, usage_calls, input_path,
                   output_path, tempfiles>>

\* return result / return [...] once every value of the container is translated
ValuesReturnContainer ==
    /\ Translating
    /\ IsContainer(Top.data)
    /\ Top.idx >= Len(Top.data.items)
    /\ Return(Top.result)
    /\ UNCHANGED <<api_key, endpoint, request, text_calls,
                   provider_error, download, doc_calls, usage_calls, input_path,
                   output_path, tempfiles, response>>

\* translation = translator.translate_text(...); return str(translation)
ValuesTranslateOk ==
    /\ Translating
    /\ ~IsContainer(Top.data)
    /\ IsTranslatable(Top.data)
    /\ text_calls' = Append(text_calls,
                            CallArgs(Top.data, request.target_lang, request.source_lang))
    /\ Return(StrValue(ProviderText(
            CallArgs(Top.data, request.target_lang, request.source_lang))))
    /\ UNCHANGED <<api_key, endpoint, request, provider_error, download,
                   doc_calls, usage_calls, input_path, output_path, tempfiles,
                   response>>

\* translator.translate_text raises deepl.DeepLException
ValuesTranslateFail ==
    /\ Translating
    /\ ~IsContainer(Top.data)
    /\ IsTranslatable(Top.data)
    /\ text_calls' = Append(text_calls,
                            CallArgs(Top.data, request.target_lang, request.source_lang))
    /\ \E msg \in ProviderErrors :
         /\ provider_error' = msg
         /\ response' = JsonExcept(DeepLException(msg))
    /\ stack' = <<>>
    /\ pc' = "done"
    /\ UNCHANGED <<api_key, endpoint, request, result, download,
                   doc_calls, usage_calls, input_path, output_path, tempfiles>>

\* else: return data
ValuesReturnLeaf ==
    /\ Translating
    /\ ~IsContainer(Top.data)
    /\ ~IsTranslatable(Top.data)
    /\ Return(Top.data)
    /\ UNCHANGED <<api_key, endpoint, request, text_calls,
                   provider_error, download, doc_calls, usage_calls, input_path,
                   output_path, tempfiles, response>>

---------------------------------------------------------------------------
(* The handlers *)

NoPath == ""
NoRequest ==
    [file_url |-> "", data |-> NullValue, target_lang |-> "", source_lang |-> ""]

\* what a request leaves alone when it arrives
Arrival ==
    UNCHANGED <<api_key, stack, result, text_calls, provider_error, download,
                doc_calls, usage_calls, input_path, output_path, tempfiles,
                response>>

Idle == endpoint = "idle"

\* POST /translate-document
ReceiveDocument ==
    /\ Idle
    /\ \E url \in FileUrls, tl \in TargetLangs, sl \in SourceLangs :
         request' = [file_url |-> url, data |-> NullValue,
                     target_lang |-> tl, source_lang |-> sl]
    /\ endpoint' = "translate_document"
    /\ pc' = "check_url"
    /\ Arrival

\* POST /translate-json
ReceiveJson ==
    /\ Idle
    /\ \E data \in JsonBodies, tl \in TargetLangs, sl \in SourceLangs :
         request' = [file_url |-> "", data |-> data,
                     target_lang |-> tl, source_lang |-> sl]
    /\ endpoint' = "translate_json"
    /\ pc' = "check_key"
    /\ Arrival

\* GET /deepl-usage
ReceiveUsage ==
    /\ Idle
    /\ request' = NoRequest
    /\ endpoint' = "deepl_usage"
    /\ pc' = "check_key"
    /\ Arrival

In(e, p) == endpoint = e /\ pc = p

\* file_url = request.object_metadata.id; if not file_url: raise HTTPException(400)
DocCheckUrl ==
    /\ In("translate_document", "check_url")
    /\ IF request.file_url = ""
       THEN /\ response' = DocumentExcept(
                  HTTPException(400, "Missing file URL in object metadata"))
            /\ pc' = "done"
       ELSE /\ pc' = "download"
            /\ UNCHANGED response
    /\ UNCHANGED <<api_key, endpoint, request, stack, result, text_calls,
                   provider_error, download, doc_calls, usage_calls, input_path,
                   output_path, tempfiles>>

\* response = await client.get(file_url), answered with some status code
DocDownload ==
    /\ In("translate_document", "download")
    /\ \E status \in {"200", "404"} :
         /\ download' = status
         /\ IF DownloadFailed(status)
            THEN /\ response' = DocumentExcept(
                       HTTPException(500, "Failed to download file"))
                 /\ pc' = "done"
            ELSE /\ pc' = "check_key"
                 /\ UNCHANGED response
    /\ UNCHANGED <<api_key, endpoint, request, stack, result, text_calls,
                   provider_error, doc_calls, usage_calls, input_path,
                   output_path, tempfiles>>

\* client.get raises: the URL is unreachable
DocDownloadRaises ==
    /\ In("translate_document", "download")
    /\ download' = "ConnectError"
    /\ response' = DocumentExcept(ConnectError)
    /\ pc' = "done"
    /\ UNCHANGED <<api_key, endpoint, request, stack, result, text_calls,
                   provider_error, doc_calls, usage_calls, input_path,
                   output_path, tempfiles>>

\* api_key = os.getenv("DEEPL_API_KEY"); if not api_key: raise HTTPException(500)
DocCheckKey ==
    /\ In("translate_document", "check_key")
    /\ IF KeyMissing(api_key)
       THEN /\ response' = DocumentExcept(
                  HTTPException(500, "DeepL API key not configured"))
            /\ pc' = "done"
       ELSE /\ pc' = "temp_input"
            /\ UNCHANGED response
    /\ UNCHANGED <<api_key, endpoint, request, stack, result, text_calls,
                   provider_error, download, doc_calls, usage_calls, input_path,
                   output_path, tempfiles>>

\* with tempfile.NamedTemporaryFile(suffix=file_ext, delete=False) as temp_input
DocTempInput ==
    /\ In("translate_document", "temp_input")
    /\ input_path' = "input"
    /\ tempfiles' = tempfiles \cup {"input"}
    /\ pc' = "temp_output"
    /\ UNCHANGED <<api_key, endpoint, request, stack, result, text_calls,
                   provider_error, download, doc_calls, usage_calls,
                   output_path, response>>

\* output_path = tempfile.NamedTemporaryFile(suffix=file_ext, delete=False).name
DocTempOutput ==
    /\ In("translate_document", "temp_output")
    /\ output_path' = "output"
    /\ tempfiles' = tempfiles \cup {"output"}
    /\ pc' = "provider"
    /\ UNCHANGED <<api_key, endpoint, request, stack, result, text_calls,
                   provider_error, download, doc_calls, usage_calls,
                   input_path, response>>

\* deepl_client.translate_document_from_filepath(input_path, output_path, ...)
DocProviderOk ==
    /\ In("translate_document", "provider")
    /\ doc_calls' = doc_calls + 1
    /\ pc' = "read_output"
    /\ UNCHANGED <<api_key, endpoint, request, stack, result, text_calls,
                   provider_error, download, usage_calls, input_path,
                   output_path, tempfiles, response>>

\* the same call raising deepl.DeepLException; the library may or may not have
\* removed the output file it was writing
DocProviderFail ==
    /\ In("translate_document", "provider")
    /\ doc_calls' = doc_calls + 1
    /\ \E msg \in ProviderErrors :
         /\ provider_error' = msg
         /\ response' = DocumentExcept(DeepLException(msg))
    /\ \E removed \in SUBSET {output_path} : tempfiles' = tempfiles \ removed
    /\ pc' = "done"
    /\ UNCHANGED <<api_key, endpoint, request, stack, result, text_calls,
                   download, usage_calls, input_path, output_path>>

\* with open(output_path, "rb") as output_file: translated_content = ...read()
DocReadOutput ==
    /\ In("translate_document", "read_output")
    /\ pc' = "unlink"
    /\ UNCHANGED <<api_key, endpoint, request, stack, result, text_calls,
                   provider_error, download, doc_calls, usage_calls, input_path,
                   output_path, tempfiles, response>>

\* open / read raising OSError
DocReadOutputFail ==
    /\ In("translate_document", "read_output")
    /\ response' = DocumentExcept(OSError)
    /\ pc' = "done"
    /\ UNCHANGED <<api_key, endpoint, request, stack, result, text_calls,
                   provider_error, download, doc_calls, usage_calls, input_path,
                   output_path, tempfiles>>

\* os.unlink(input_path); os.unlink(output_path); return StreamingResponse(...)
DocUnlinkAndReturn ==
    /\ In("translate_document", "unlink")
    /\ tempfiles' = tempfiles \ {input_path, output_path}
    /\ response' = OkResponse(NullValue)
    /\ pc' = "done"
    /\ UNCHANGED <<api_key, endpoint, request, stack, result, text_calls,
                   provider_error, download, doc_calls, usage_calls, input_path,
                   output_path>>

\* translate_json up to the call of translate_json_values(data, ...)
JsonCheckKey ==
    /\ In("translate_json", "check_key")
    /\ IF KeyMissing(api_key)
       THEN /\ response' = JsonExcept(
                  HTTPException(500, "DeepL API key not configured"))
            /\ pc' = "done"
            /\ UNCHANGED stack
       ELSE /\ stack' = <<Frame(request.data)>>
            /\ pc' = "translating"
            /\ UNCHANGED response
    /\ UNCHANGED <<api_key, endpoint, request, result, text_calls,
                   provider_error, download, doc_calls, usage_calls, input_path,
                   output_path, tempfiles>>

\* return translated_data
JsonReturn ==
    /\ In("translate_json", "return")
    /\ response' = OkResponse(result)
    /\ pc' = "done"
    /\ UNCHANGED <<api_key, endpoint, request, stack, result, text_calls,
                   provider_error, download, doc_calls, usage_calls, input_path,
                   output_path, tempfiles>>

\* get_deepl_usage up to the provider call
UsageCheckKey ==
    /\ In("deepl_usage", "check_key")
    /\ IF KeyMissing(api_key)
       THEN /\ response' = UsageExcept(
                  HTTPException(500, "DeepL API key not configured"))
            /\ pc' = "done"
       ELSE /\ pc' = "get_usage"
            /\ UNCHANGED response
    /\ UNCHANGED <<api_key, endpoint, request, stack, result, text_calls,
                   provider_error, download, doc_calls, usage_calls, input_path,
                   output_path, tempfiles>>

\* return deepl_client.get_usage()
UsageGetOk ==
    /\ In("deepl_usage", "get_usage")
    /\ usage_calls' = usage_calls + 1
    /\ response' = OkResponse(NullValue)
    /\ pc' = "done"
    /\ UNCHANGED <<api_key, endpoint, request, stack, result, text_calls,
                   provider_error, download, doc_calls, input_path,
                   output_path, tempfiles>>

\* get_usage raising deepl.DeepLException
UsageGetFail ==
    /\ In("deepl_usage", "get_usage")
    /\ usage_calls' = usage_calls + 1
    /\ \E msg \in ProviderErrors :
         /\ provider_error' = msg
         /\ response' = UsageExcept(DeepLException(msg))
    /\ pc' = "done"
    /\ UNCHANGED <<api_key, endpoint, request, stack, result, text_calls,
                   download, doc_calls, input_path, output_path, tempfiles>>

\* the service after startup: load_dotenv() has run, no request is in progress
Init ==
    /\ api_key \in BOOLEAN
    /\ endpoint = "idle"
    /\ pc = "idle"
    /\ request = NoRequest
    /\ stack = <<>>
    /\ result = NullValue
    /\ text_calls = <<>>
    /\ provider_error = ""
    /\ download = "none"
    /\ doc_calls = 0
    /\ usage_calls = 0
    /\ input_path = NoPath
    /\ output_path = NoPath
    /\ tempfiles = {}
    /\ response = NoResponse

Next ==
    \/ ReceiveDocument
    \/ ReceiveJson
    \/ ReceiveUsage
    \/ DocCheckUrl
    \/ DocDownload
    \/ DocDownloadRaises
    \/ DocCheckKey
    \/ DocTempInput
    \/ DocTempOutput
    \/ DocProviderOk
    \/ DocProviderFail
    \/ DocReadOutput
    \/ DocReadOutputFail
    \/ DocUnlinkAndReturn
    \/ JsonCheckKey
    \/ ValuesDescend
    \/ ValuesRecursionError
    \/ ValuesReturnContainer
    \/ ValuesTranslateOk
    \/ ValuesTranslateFail
    \/ ValuesReturnLeaf
    \/ JsonReturn
    \/ UsageCheckKey
    \/ UsageGetOk
    \/ UsageGetFail

Spec == Init /\ [][Next]_vars

---------------------------------------------------------------------------
(* What the claims speak of, stated on JSON values without the code's tests *)

\* a string that is non-empty after trimming: it holds a non-whitespace character
NonBlank(s) == \E i \in 1..Len(s) : s[i] \notin Whitespace

RECURSIVE SumSeq(_)
SumSeq(ns) == IF ns = <<>> THEN 0 ELSE Head(ns) + SumSeq(Tail(ns))

RECURSIVE Flatten(_)
Flatten(ss) == IF ss = <<>> THEN <<>> ELSE Head(ss) \o Flatten(Tail(ss))

RECURSIVE MaxSeq(_)
MaxSeq(ns) ==
    IF ns = <<>> THEN 0
    ELSE LET m == MaxSeq(Tail(ns)) IN IF Head(ns) > m THEN Head(ns) ELSE m

\* the nesting depth of a value: the activations of translate_json_values it needs
RECURSIVE Depth(_)
Depth(v) == 1 + MaxSeq([i \in 1..Len(v.items) |-> Depth(v.items[i])])

\* same container / leaf kind at each position, same keys in the same order,
\* same lengths, and every leaf that is not a string equal
RECURSIVE SameShape(_, _)
SameShape(a, b) ==
    /\ a.kind = b.kind
    /\ a.keys = b.keys
    /\ Len(a.items) = Len(b.items)
    /\ (a.kind \notin {"obj", "arr", "str"} => a = b)
    /\ \A i \in 1..Len(a.items) : SameShape(a.items[i], b.items[i])

\* every leaf of a that is no string, or a blank string, is the same leaf in b
RECURSIVE Untouched(_, _)
Untouched(a, b) ==
    IF a.kind \in {"obj", "arr"}
    THEN /\ Len(a.items) = Len(b.items)
         /\ \A i \in 1..Len(a.items) : Untouched(a.items[i], b.items[i])
    ELSE (a.kind # "str" \/ ~NonBlank(a.str)) => b = a

\* every non-blank string leaf of a is, in b, what the provider returned for it
RECURSIVE Translated(_, _, _)
Translated(a, b, lang) ==
    IF a.kind \in {"obj", "arr"}
    THEN /\ Len(a.items) = Len(b.items)
         /\ \A i \in 1..Len(a.items) : Translated(a.items[i], b.items[i], lang)
    ELSE (a.kind = "str" /\ NonBlank(a.str)) => b = StrValue(<<lang>> \o a.str)

\* the number of string leaves of v whose text is t
RECURSIVE LeafCount(_, _)
LeafCount(v, t) ==
    IF v.kind \in {"obj", "arr"}
    THEN SumSeq([i \in 1..Len(v.items) |-> LeafCount(v.items[i], t)])
    ELSE IF v.kind = "str" /\ v.str = t THEN 1 ELSE 0

\* the texts of the non-blank string leaves of v, depth first: object values in
\* insertion order, array elements in index order
RECURSIVE DfsTexts(_)
DfsTexts(v) ==
    IF v.kind \in {"obj", "arr"}
    THEN Flatten([i \in 1..Len(v.items) |-> DfsTexts(v.items[i])])
    ELSE IF v.kind = "str" /\ NonBlank(v.str) THEN <<v.str>> ELSE <<>>

CallTexts == [i \in 1..Len(text_calls) |-> text_calls[i].text]

Occurrences(t) == Cardinality({i \in 1..Len(text_calls) : text_calls[i].text = t})

IsPrefix(p, q) == Len(p) <= Len(q) /\ SubSeq(q, 1, Len(p)) = p

NoProviderCall == text_calls = <<>> /\ doc_calls = 0 /\ usage_calls = 0

IsConfigError(r) == r.status = 500 /\ r.cause = "DeepL API key not configured"

JsonDone == In("translate_json", "done")
JsonOk == JsonDone /\ response.status = 200
DocDone == In("translate_document", "done")

---------------------------------------------------------------------------
(* The claims *)

\* C1: with a provider that never fails, translate_json_values returns a value
\* of the shape of its input: the same keys in the same insertion order, the
\* same array lengths and order, the same kind at each position; only string
\* leaves differ. Whenever /translate-json answers 200 its body has the shape
\* of the request's data, and it answers 200 whenever the key is set, the
\* provider did not fail and the data is not nested beyond the frame limit.
C1_ShapePreserved ==
    /\ JsonOk => SameShape(request.data, response.body)
    /\ (JsonDone /\ api_key /\ provider_error = ""
          /\ Depth(request.data) <= RecursionLimit) => response.status = 200

C1_Witness ==
    /\ JsonOk
    /\ response.body # request.data
    /\ request.data.keys = <<"b", "a">>
    /\ \E i \in 1..2 : request.data.items[i].kind \in {"obj", "arr"}
                        /\ request.data.items[i].items # <<>>

\* C2: a number, boolean, null, empty string or whitespace-only string is
\* returned unchanged at its position and is never passed to translate_text:
\* every text sent to the provider is non-empty after trimming.
C2_BlankAndScalarsUntouched ==
    /\ \A i \in 1..Len(text_calls) : NonBlank(text_calls[i].text)
    /\ JsonOk => Untouched(request.data, response.body)

C2_Witness ==
    /\ JsonOk
    /\ \E i, j \in 1..Len(request.data.items) :
         /\ request.data.items[i] \in {StrValue(<<>>), StrValue(<<" ">>)}
         /\ response.body.items[i] = request.data.items[i]
         /\ request.data.items[j].kind = "str"
         /\ response.body.items[j] # request.data.items[j]

\* C3: once the provider failed on a string leaf of a /translate-json request,
\* the request ends in a 500 response carrying the provider's message, and no
\* translated structure, partial or whole, is returned.
C3_AllOrNothing ==
    (endpoint = "translate_json" /\ provider_error # "") =>
        /\ pc = "done"
        /\ response.status = 500
        /\ response.cause = provider_error
        /\ response.body = NullValue
        /\ result = NullValue

C3_Witness ==
    /\ JsonDone
    /\ provider_error # ""
    /\ Len(text_calls) >= 2

\* C4: a /translate-document request whose "@id" URL is empty is answered with
\* status 400, and neither a download nor a provider call is attempted.
C4_MissingUrlIs400 ==
    (DocDone /\ request.file_url = "") =>
        /\ response.status = 400
        /\ download = "none"
        /\ doc_calls = 0

\* C5, as claimed: with DEEPL_API_KEY absent every endpoint answers with the
\* config error (500, key not configured) and attempts no provider call,
\* whatever the outcome of the download (here for requests that name a URL).
C5_ConfigErrorAlways ==
    (~api_key /\ pc = "done"
        /\ (endpoint = "translate_document" => request.file_url # "")) =>
        /\ IsConfigError(response)
        /\ NoProviderCall

\* C5, amended: with DEEPL_API_KEY absent no endpoint ever attempts a provider
\* call and every request ends with status 500; the response is the config
\* error for /translate-json and /deepl-usage, and for /translate-document
\* when the download returned status 200.
C5_NoProviderCallWithoutKey ==
    ~api_key =>
        /\ NoProviderCall
        /\ pc = "done" => response.status = 500
        /\ (pc = "done" /\ (endpoint \in {"translate_json", "deepl_usage"}
                             \/ download = "200")) => IsConfigError(response)

C5_Witness == ~api_key /\ DocDone /\ download = "200"

\* C6: every temporary file /translate-document created is released by the
\* time the handler finishes, on every exit path.
C6_TempFilesReleased == DocDone => tempfiles = {}

\* C7: if fetching the source URL fails (a status other than 200, or the HTTP
\* client raises), the handler ends with a 500 response that reports the
\* retrieval failure, the provider's document translation is never invoked and
\* no temporary file is created.
C7_RetrievalFailure ==
    (endpoint = "translate_document" /\ download \in {"404", "ConnectError"}) =>
        /\ pc = "done"
        /\ response.status = 500
        /\ download = "404" =>
             response.cause = "Failed to download file" /\ response.cause_status = 500
        /\ download = "ConnectError" => response.cause = ConnectError.msg
        /\ doc_calls = 0
        /\ input_path = NoPath /\ output_path = NoPath /\ tempfiles = {}

C7_Witness == DocDone /\ download = "ConnectError" /\ api_key

\* C8: /translate-json with data nested deeper than the frame limit either
\* answers 200 with the translation or answers with a validation error (4xx).
C8_DeepNestingValidated ==
    (JsonDone /\ api_key /\ provider_error = ""
        /\ Depth(request.data) > RecursionLimit) =>
        \/ response.status = 200
        \/ response.status \in 400..499

\* C9: for a successful /translate-json request the number of translate_text
\* calls is the number of string leaves that are non-empty after trimming; each
\* such leaf is sent once, with its original text and the request's target_lang
\* and source_lang, and what the provider returned for it stands at its place.
C9_OneCallPerLeaf ==
    JsonOk =>
        /\ Len(text_calls) = Len(DfsTexts(request.data))
        /\ \A t \in Texts :
             Occurrences(t) = IF NonBlank(t) THEN LeafCount(request.data, t) ELSE 0
        /\ \A i \in 1..Len(text_calls) :
             /\ text_calls[i].target_lang = request.target_lang
             /\ text_calls[i].source_lang = request.source_lang
        /\ Translated(request.data, response.body, request.target_lang)

C9_Witness ==
    /\ JsonOk
    /\ Len(text_calls) >= 2
    /\ \E i \in 1..Len(text_calls) : text_calls[i].text = <<" ", "Y", "o">>
    /\ request.source_lang = "None"

\* C10: the provider calls of one translate_json_values invocation are issued
\* one at a time in depth-first order (object values in insertion order, array
\* elements in index order): at every moment the calls made so far are the
\* first non-blank string leaves of the data in that order, and a call that
\* fails is the last one, the handler being finished.
C10_SequentialDepthFirst ==
    endpoint = "translate_json" =>
        /\ IsPrefix(CallTexts, DfsTexts(request.data))
        /\ provider_error # "" => (pc = "done" /\ stack = <<>>)

C10_Witness ==
    /\ JsonDone
    /\ provider_error # ""
    /\ Len(text_calls) = 1
    /\ Len(DfsTexts(request.data)) = 2
    /\ request.data.items[1].kind \in {"obj", "arr"}

====
